---- MODULE Spec2Model ----
(***************************************************************************)
(* Model of the contact-form pipeline of src/server.js: the handler of     *)
(* POST /api/contact, the Contact model built from contactSchema, the      *)
(* store it saves to and the mail transport it sends through.              *)
(*                                                                         *)
(* Node runs one handler at a time up to its next await, so every action   *)
(* below is one such synchronous segment of one request: from the arrival  *)
(* of the request to the call of save(), from the settling of save() to    *)
(* the first sendMail(), and so on.  Several requests interleave at the    *)
(* awaits.                                                                 *)
(*                                                                         *)
(* Text is a sequence of one-character strings.  A JavaScript value is a   *)
(* record [t |-> type, v |-> text], v being what String(value) gives.      *)
(***************************************************************************)
EXTENDS Integers, Sequences, FiniteSets, TLC

\* Number of requests the server receives in one run.
NumReqs == 2
\* Largest value the millisecond clock (Date.now) takes.
MaxClock == 1

Reqs == 1..NumReqs

---------------------------------------------------------------------------
(* JavaScript values *)

Str(s) == [t |-> "string", v |-> s]
Num(s) == [t |-> "number", v |-> s]
Undefined == [t |-> "undefined", v |-> <<"u">>]
Obj == [t |-> "object", v |-> <<"o">>]

WhiteSpace == {" ", "\n"}

\* !x of JavaScript: undefined, "" and 0 are falsy, objects are truthy.
Falsy(x) ==
    \/ x.t = "undefined"
    \/ x.t = "string" /\ x.v = <<>>
    \/ x.t = "number" /\ x.v = <<"0">>

\* a || b
OrElse(a, b) == IF Falsy(a) THEN b ELSE a

RECURSIVE TrimLeft(_)
TrimLeft(s) ==
    IF s # <<>> /\ Head(s) \in WhiteSpace THEN TrimLeft(Tail(s)) ELSE s

RECURSIVE TrimRight(_)
TrimRight(s) ==
    IF s # <<>> /\ s[Len(s)] \in WhiteSpace
    THEN TrimRight(SubSeq(s, 1, Len(s) - 1))
    ELSE s

\* String.prototype.trim
Trim(s) == TrimLeft(TrimRight(s))

LowerChar(c) ==
    CASE c = "A" -> "a"
      [] c = "S" -> "s"
      [] c = "M" -> "m"
      [] OTHER -> c

\* String.prototype.toLowerCase
ToLowerCase(s) == [i \in 1..Len(s) |-> LowerChar(s[i])]

RECURSIVE ReplaceNewlines(_)
\* message.replace(/\n/g, '<br>')
ReplaceNewlines(s) ==
    IF s = <<>> THEN <<>>
    ELSE (IF Head(s) = "\n" THEN <<"<", "b", "r", ">">> ELSE <<Head(s)>>)
         \o ReplaceNewlines(Tail(s))

NoSubject == <<"N", "o", " ", "S", "u", "b", "j", "e", "c", "t">>

---------------------------------------------------------------------------
(* contactSchema: every path is a String; a value is cast, then passed     *)
(* through the path's setters (trim, lowercase) when the document is built *)
(* and the required validators run inside save().                          *)

\* The String cast: a plain object or an array cannot be cast.
CastFails(x) == x.t = "object"

SetName(x) == IF x.t \in {"undefined", "object"} THEN x ELSE Str(Trim(x.v))

\* SetEmail without lowercase: true.
SetEmailKeepsCase(x) ==
    IF x.t \in {"undefined", "object"} THEN x ELSE Str(Trim(x.v))

SetEmail(x) ==
    IF x.t \in {"undefined", "object"} THEN x ELSE Str(ToLowerCase(Trim(x.v)))

SetSubject(x) == IF x.t \in {"undefined", "object"} THEN x ELSE Str(Trim(x.v))

SetMessage(x) == IF x.t \in {"undefined", "object"} THEN x ELSE Str(Trim(x.v))

\* required: true on a String path: the value is a non-empty string.
Required(x) == x.t = "string" /\ x.v # <<>>

\* The validation save() runs before it writes.
DocValid(d) ==
    /\ Required(d.name)
    /\ Required(d.email)
    /\ Required(d.message)
    /\ ~CastFails(d.subject)

---------------------------------------------------------------------------
(* Requests *)

AdaName == Str(<<" ", "<", "A">>)
AdaEmail == Str(<<"A", "@", "x", " ">>)
Hello == Str(<<"M", "\n", "m">>)

\* What a client may send as each field of the JSON body.
NameValues ==
    {Undefined, Str(<<>>), Str(<<" ">>), AdaName, Num(<<"5">>), Obj}
EmailValues == {Undefined, Str(<<>>), Str(<<" ">>), AdaEmail, Obj}
SubjectValues ==
    {Undefined, Str(<<>>), Str(<<" ">>), Str(<<"S", " ">>), Num(<<"0">>)}
MessageValues ==
    {Undefined, Str(<<>>), Str(<<" ">>), Hello, Num(<<"5">>), Obj}

\* req.body: every combination of the field values.
AllBodies ==
    [name : NameValues, email : EmailValues, subject : SubjectValues,
     message : MessageValues]

ValidBody ==
    [name |-> AdaName, email |-> AdaEmail, subject |-> Undefined,
     message |-> Hello]

EmptyBody ==
    [name |-> Undefined, email |-> Undefined, subject |-> Undefined,
     message |-> Undefined]

\* The bodies of the requests that run concurrently: one for each way
\* through the handler.
Bodies ==
    {ValidBody,
     [ValidBody EXCEPT !.name = Str(<<>>)],
     [ValidBody EXCEPT !.name = Str(<<" ">>)],
     [ValidBody EXCEPT !.subject = Str(<<" ">>)],
     [ValidBody EXCEPT !.subject = Str(<<"S", " ">>)],
     [ValidBody EXCEPT !.message = Num(<<"5">>)]}

AdminAddress == <<"k", "@", "g">>
ThankYou == <<"T", "h", "a", "n", "k", "s">>
NewMessagePrefix == <<"N", "e", "w", ":", " ">>

VARIABLES
    pc,         \* where each request's handler stands
    body,       \* req.body of each request
    doc,        \* newContact of each request
    store,      \* the contacts collection, in insertion order
    resp,       \* the responses sent for each request, in order
    log,        \* what each request's handler did, in order
    mailCalls,  \* the messages each request handed to transporter.sendMail
    sent,       \* the messages of each request the transport accepted
    now,        \* the last value Date.now() returned
    nextId      \* source of the _id of the next document

vars == <<pc, body, doc, store, resp, log, mailCalls, sent, now, nextId>>

NoDoc ==
    [id |-> 0, name |-> Undefined, email |-> Undefined, subject |-> Undefined,
     message |-> Undefined, createdAt |-> 0]

\* if (!name || !email || !message)
MissingFields(b) == Falsy(b.name) \/ Falsy(b.email) \/ Falsy(b.message)

\* new Contact({name, email, subject: subject || 'No Subject', message});
\* _id and the createdAt default are set here, before save() is called.
NewContact(b, t, id) ==
    [id |-> id,
     name |-> SetName(b.name),
     email |-> SetEmail(b.email),
     subject |-> SetSubject(OrElse(b.subject, Str(NoSubject))),
     message |-> SetMessage(b.message),
     createdAt |-> t]

Response400 ==
    [status |-> 400, success |-> FALSE,
     message |-> "Please fill in all required fields (Name, Email, Message)."]

Response200 ==
    [status |-> 200, success |-> TRUE,
     message |-> "Your message has been sent successfully!"]

Response500 ==
    [status |-> 500, success |-> FALSE,
     message |-> "An internal server error occurred. Please try again later."]

\* MailToAdmin built from the document instead of the local variables.
MailToAdminFromDocument(b) ==
    [kind |-> "admin",
     from |-> SetName(b.name).v,
     to |-> AdminAddress,
     replyTo |-> SetEmail(b.email).v,
     subject |->
         NewMessagePrefix \o SetSubject(OrElse(b.subject, Str(NoSubject))).v,
     html |-> [name |-> SetName(b.name).v,
               email |-> SetEmail(b.email).v,
               subject |-> SetSubject(OrElse(b.subject, Str(NoSubject))).v,
               message |-> ReplaceNewlines(SetMessage(b.message).v)]]

\* mailOptionsToAdmin, built from the handler's local variables.
MailToAdmin(b) ==
    [kind |-> "admin",
     from |-> b.name.v,
     to |-> AdminAddress,
     replyTo |-> b.email.v,
     subject |-> NewMessagePrefix \o OrElse(b.subject, Str(NoSubject)).v,
     html |-> [name |-> b.name.v,
               email |-> b.email.v,
               subject |-> OrElse(b.subject, Str(NoSubject)).v,
               message |-> ReplaceNewlines(b.message.v)]]

\* autoReplyOptions
AutoReply(b) ==
    [kind |-> "reply",
     from |-> <<"K">>,
     to |-> b.email.v,
     replyTo |-> <<>>,
     subject |-> ThankYou,
     html |-> [name |-> b.name.v, email |-> <<>>, subject |-> <<>>,
               message |-> <<>>]]

Init ==
    /\ pc = [r \in Reqs |-> "idle"]
    /\ body = [r \in Reqs |-> EmptyBody]
    /\ doc = [r \in Reqs |-> NoDoc]
    /\ store = <<>>
    /\ resp = [r \in Reqs |-> <<>>]
    /\ log = [r \in Reqs |-> <<>>]
    /\ mailCalls = [r \in Reqs |-> <<>>]
    /\ sent = [r \in Reqs |-> <<>>]
    /\ now = 0
    /\ nextId = 1

\* Requests are numbered in the order they arrive.
IsNext(r) == pc[r] = "idle" /\ \A q \in Reqs : q < r => pc[q] # "idle"

\* Respond that ends the handler without sending the response.
RespondNothing(r, es, response) ==
    /\ resp' = resp
    /\ log' = [log EXCEPT ![r] = @ \o es]
    /\ pc' = [pc EXCEPT ![r] = "done"]

\* res.status(..).json(..) after the events es; the handler ends.
Respond(r, es, response) ==
    /\ resp' = [resp EXCEPT ![r] = Append(@, response)]
    /\ log' = [log EXCEPT ![r] = @ \o es \o <<"respond">>]
    /\ pc' = [pc EXCEPT ![r] = "done"]

\* Catch with the success response in place of the 500.
CatchSuccess(r, es) == Respond(r, es, Response200)

\* The catch block of the handler.
Catch(r, es) == Respond(r, es, Response500)

\* Lines 78-86: the request arrives with body b and a required field is
\* falsy.
Reject(r, b) ==
    /\ IsNext(r)
    /\ MissingFields(b)
    /\ body' = [body EXCEPT ![r] = b]
    /\ Respond(r, <<"invalid">>, Response400)
    /\ UNCHANGED <<doc, store, mailCalls, sent, now, nextId>>

\* Lines 78-96: the request arrives with body b, passes the check, the
\* document is built at clock value t and save() is called.  The clock is
\* taken not to go back (t >= now) and may stand still between two requests;
\* _id values are handed out in the order of construction.
Accept(r, b, t) ==
    /\ IsNext(r)
    /\ ~MissingFields(b)
    /\ t >= now
    /\ body' = [body EXCEPT ![r] = b]
    /\ doc' = [doc EXCEPT ![r] = NewContact(b, t, nextId)]
    /\ now' = t
    /\ nextId' = nextId + 1
    /\ log' = [log EXCEPT ![r] = @ \o <<"valid", "save">>]
    /\ pc' = [pc EXCEPT ![r] = "save"]
    /\ UNCHANGED <<store, resp, mailCalls, sent>>

\* save() rejects with the schema's validation error; nothing is written.
SaveInvalid(r) ==
    /\ pc[r] = "save"
    /\ ~DocValid(doc[r])
    /\ Catch(r, <<"saveError">>)
    /\ UNCHANGED <<body, doc, store, mailCalls, sent, now, nextId>>

\* SaveError with the rejection of save() swallowed: the handler goes on to
\* the operator message.
SaveErrorIgnored(r) ==
    /\ pc[r] = "save"
    /\ DocValid(doc[r])
    /\ body[r].message.t = "string"
    /\ mailCalls' = [mailCalls EXCEPT ![r] = Append(@, MailToAdmin(body[r]))]
    /\ log' = [log EXCEPT ![r] = @ \o <<"saveError", "sendAdmin">>]
    /\ pc' = [pc EXCEPT ![r] = "mailAdmin"]
    /\ UNCHANGED <<body, doc, store, resp, sent, now, nextId>>

\* save() rejects because the store failed; nothing is written.
SaveError(r) ==
    /\ pc[r] = "save"
    /\ DocValid(doc[r])
    /\ Catch(r, <<"saveError">>)
    /\ UNCHANGED <<body, doc, store, mailCalls, sent, now, nextId>>

\* SaveOk that dispatches the auto-reply first.
SaveOkReplyFirst(r) ==
    /\ pc[r] = "save"
    /\ DocValid(doc[r])
    /\ store' = Append(store, doc[r])
    /\ mailCalls' = [mailCalls EXCEPT ![r] = Append(@, AutoReply(body[r]))]
    /\ log' = [log EXCEPT ![r] = @ \o <<"saveOk", "sendReply">>]
    /\ pc' = [pc EXCEPT ![r] = "mailReply"]
    /\ UNCHANGED <<body, doc, resp, sent, now, nextId>>

\* SaveOk that replaces the record of the same submitter, if there is one.
SaveOkUpsert(r) ==
    /\ pc[r] = "save"
    /\ DocValid(doc[r])
    /\ store' =
          IF \E i \in DOMAIN store : store[i].email = doc[r].email
          THEN [i \in DOMAIN store |->
                   IF store[i].email = doc[r].email THEN doc[r] ELSE store[i]]
          ELSE Append(store, doc[r])
    /\ IF body[r].message.t = "string"
       THEN /\ mailCalls' =
                 [mailCalls EXCEPT ![r] = Append(@, MailToAdmin(body[r]))]
            /\ log' = [log EXCEPT ![r] = @ \o <<"saveOk", "sendAdmin">>]
            /\ pc' = [pc EXCEPT ![r] = "mailAdmin"]
            /\ UNCHANGED resp
       ELSE /\ Catch(r, <<"saveOk", "typeError">>)
            /\ UNCHANGED mailCalls
    /\ UNCHANGED <<body, doc, sent, now, nextId>>

\* SaveOk of a handler whose document is shared by all requests: what is
\* written is the document constructed last.
SaveOkSharedDocument(r) ==
    /\ pc[r] = "save"
    /\ DocValid(doc[r])
    /\ LET last == CHOOSE q \in Reqs : \A p \in Reqs : doc[p].id <= doc[q].id
       IN  store' = Append(store, doc[last])
    /\ IF body[r].message.t = "string"
       THEN /\ mailCalls' =
                 [mailCalls EXCEPT ![r] = Append(@, MailToAdmin(body[r]))]
            /\ log' = [log EXCEPT ![r] = @ \o <<"saveOk", "sendAdmin">>]
            /\ pc' = [pc EXCEPT ![r] = "mailAdmin"]
            /\ UNCHANGED resp
       ELSE /\ Catch(r, <<"saveOk", "typeError">>)
            /\ UNCHANGED mailCalls
    /\ UNCHANGED <<body, doc, sent, now, nextId>>

\* SaveOk writing the document twice.
SaveOkTwice(r) ==
    /\ pc[r] = "save"
    /\ DocValid(doc[r])
    /\ store' = Append(Append(store, doc[r]), doc[r])
    /\ IF body[r].message.t = "string"
       THEN /\ mailCalls' =
                 [mailCalls EXCEPT ![r] = Append(@, MailToAdmin(body[r]))]
            /\ log' = [log EXCEPT ![r] = @ \o <<"saveOk", "sendAdmin">>]
            /\ pc' = [pc EXCEPT ![r] = "mailAdmin"]
            /\ UNCHANGED resp
       ELSE /\ Catch(r, <<"saveOk", "typeError">>)
            /\ UNCHANGED mailCalls
    /\ UNCHANGED <<body, doc, sent, now, nextId>>

\* SaveOk with createdAt taken from the clock when the record is written.
SaveOkStampedAtWrite(r) ==
    /\ pc[r] = "save"
    /\ DocValid(doc[r])
    /\ \E t \in now..MaxClock :
          /\ store' = Append(store, [doc[r] EXCEPT !.createdAt = t])
          /\ doc' = [doc EXCEPT ![r].createdAt = t]
          /\ now' = t
    /\ IF body[r].message.t = "string"
       THEN /\ mailCalls' =
                 [mailCalls EXCEPT ![r] = Append(@, MailToAdmin(body[r]))]
            /\ log' = [log EXCEPT ![r] = @ \o <<"saveOk", "sendAdmin">>]
            /\ pc' = [pc EXCEPT ![r] = "mailAdmin"]
            /\ UNCHANGED resp
       ELSE /\ Catch(r, <<"saveOk", "typeError">>)
            /\ UNCHANGED mailCalls
    /\ UNCHANGED <<body, sent, nextId>>

\* SaveOk that does not write a submission the collection already holds.
SaveOkDeduplicated(r) ==
    /\ pc[r] = "save"
    /\ DocValid(doc[r])
    /\ store' =
          IF \E i \in DOMAIN store :
                /\ store[i].name = doc[r].name
                /\ store[i].email = doc[r].email
                /\ store[i].subject = doc[r].subject
                /\ store[i].message = doc[r].message
          THEN store
          ELSE Append(store, doc[r])
    /\ IF body[r].message.t = "string"
       THEN /\ mailCalls' =
                 [mailCalls EXCEPT ![r] = Append(@, MailToAdmin(body[r]))]
            /\ log' = [log EXCEPT ![r] = @ \o <<"saveOk", "sendAdmin">>]
            /\ pc' = [pc EXCEPT ![r] = "mailAdmin"]
            /\ UNCHANGED resp
       ELSE /\ Catch(r, <<"saveOk", "typeError">>)
            /\ UNCHANGED mailCalls
    /\ UNCHANGED <<body, doc, sent, now, nextId>>

\* Lines 96-136: save() resolves, the document is in the collection; the
\* operator message is built (message.replace throws on a non-string) and
\* handed to sendMail.
SaveOk(r) ==
    /\ pc[r] = "save"
    /\ DocValid(doc[r])
    /\ store' = Append(store, doc[r])
    /\ IF body[r].message.t = "string"
       THEN /\ mailCalls' =
                 [mailCalls EXCEPT ![r] = Append(@, MailToAdmin(body[r]))]
            /\ log' = [log EXCEPT ![r] = @ \o <<"saveOk", "sendAdmin">>]
            /\ pc' = [pc EXCEPT ![r] = "mailAdmin"]
            /\ UNCHANGED resp
       ELSE /\ Catch(r, <<"saveOk", "typeError">>)
            /\ UNCHANGED mailCalls
    /\ UNCHANGED <<body, doc, sent, now, nextId>>

\* Lines 136-171: the operator message was accepted; the auto-reply is
\* built and handed to sendMail.
AdminMailOk(r) ==
    /\ pc[r] = "mailAdmin"
    /\ sent' = [sent EXCEPT ![r] = Append(@, MailToAdmin(body[r]))]
    /\ mailCalls' = [mailCalls EXCEPT ![r] = Append(@, AutoReply(body[r]))]
    /\ log' = [log EXCEPT ![r] = @ \o <<"adminOk", "sendReply">>]
    /\ pc' = [pc EXCEPT ![r] = "mailReply"]
    /\ UNCHANGED <<body, doc, store, resp, now, nextId>>

\* AdminMailError that hands the operator message to the transport once
\* more before it gives up.
AdminMailErrorRetried(r) ==
    /\ pc[r] = "mailAdmin"
    /\ IF Len(mailCalls[r]) < 2
       THEN /\ mailCalls' =
                 [mailCalls EXCEPT ![r] = Append(@, MailToAdmin(body[r]))]
            /\ log' = [log EXCEPT ![r] = @ \o <<"adminError", "sendAdmin">>]
            /\ UNCHANGED <<pc, resp>>
       ELSE /\ Catch(r, <<"adminError">>)
            /\ UNCHANGED mailCalls
    /\ UNCHANGED <<body, doc, store, sent, now, nextId>>

\* AdminMailError with the failure caught on its own: the handler goes on
\* to the auto-reply.
AdminMailErrorThenReply(r) ==
    /\ pc[r] = "mailAdmin"
    /\ mailCalls' = [mailCalls EXCEPT ![r] = Append(@, AutoReply(body[r]))]
    /\ log' = [log EXCEPT ![r] = @ \o <<"adminError", "sendReply">>]
    /\ pc' = [pc EXCEPT ![r] = "mailReply"]
    /\ UNCHANGED <<body, doc, store, resp, sent, now, nextId>>

\* Line 136 throws: the transport refused the operator message.
AdminMailError(r) ==
    /\ pc[r] = "mailAdmin"
    /\ Catch(r, <<"adminError">>)
    /\ UNCHANGED <<body, doc, store, mailCalls, sent, now, nextId>>

\* Lines 171-175: the auto-reply was accepted; the success response.
ReplyMailOk(r) ==
    /\ pc[r] = "mailReply"
    /\ sent' = [sent EXCEPT ![r] = Append(@, AutoReply(body[r]))]
    /\ Respond(r, <<"replyOk">>, Response200)
    /\ UNCHANGED <<body, doc, store, mailCalls, now, nextId>>

\* ReplyMailError that takes the saved record back before it answers.
ReplyMailErrorRollback(r) ==
    /\ pc[r] = "mailReply"
    /\ store' = SelectSeq(store, LAMBDA d : d.id # doc[r].id)
    /\ Catch(r, <<"replyError">>)
    /\ UNCHANGED <<body, doc, mailCalls, sent, now, nextId>>

\* Line 171 throws: the transport refused the auto-reply.
ReplyMailError(r) ==
    /\ pc[r] = "mailReply"
    /\ Catch(r, <<"replyError">>)
    /\ UNCHANGED <<body, doc, store, mailCalls, sent, now, nextId>>

Next ==
    \/ \E r \in Reqs, b \in Bodies : Reject(r, b)
    \/ \E r \in Reqs, b \in Bodies, t \in 0..MaxClock : Accept(r, b, t)
    \/ \E r \in Reqs : SaveInvalid(r)
    \/ \E r \in Reqs : SaveError(r)
    \/ \E r \in Reqs : SaveOk(r)
    \/ \E r \in Reqs : AdminMailOk(r)
    \/ \E r \in Reqs : AdminMailError(r)
    \/ \E r \in Reqs : ReplyMailOk(r)
    \/ \E r \in Reqs : ReplyMailError(r)

\* Concurrent requests.
Spec == Init /\ [][Next]_vars

\* One request, any body.
NextOne ==
    \/ \E b \in AllBodies : Reject(1, b)
    \/ \E b \in AllBodies, t \in 0..MaxClock : Accept(1, b, t)
    \/ SaveInvalid(1)
    \/ SaveError(1)
    \/ SaveOk(1)
    \/ AdminMailOk(1)
    \/ AdminMailError(1)
    \/ ReplyMailOk(1)
    \/ ReplyMailError(1)

SpecOne == Init /\ [][NextOne]_vars

\* Concurrent requests whose calls of save() and sendMail() all return:
\* the promise a handler awaits is settled, one way or the other.
Fairness ==
    \A r \in Reqs :
        /\ WF_vars(SaveInvalid(r) \/ SaveError(r) \/ SaveOk(r))
        /\ WF_vars(AdminMailOk(r) \/ AdminMailError(r))
        /\ WF_vars(ReplyMailOk(r) \/ ReplyMailError(r))

\* One body for each path of the handler to its response.
LiveBodies ==
    {ValidBody,
     [ValidBody EXCEPT !.name = Str(<<>>)],
     [ValidBody EXCEPT !.name = Str(<<" ">>)],
     [ValidBody EXCEPT !.message = Num(<<"5">>)]}

\* The steps of Next with the clock standing still: the control flow reads
\* neither the clock nor the text of a valid field.
NextLive ==
    \/ \E r \in Reqs, b \in LiveBodies : Reject(r, b)
    \/ \E r \in Reqs, b \in LiveBodies : Accept(r, b, now)
    \/ \E r \in Reqs : SaveInvalid(r)
    \/ \E r \in Reqs : SaveError(r)
    \/ \E r \in Reqs : SaveOk(r)
    \/ \E r \in Reqs : AdminMailOk(r)
    \/ \E r \in Reqs : AdminMailError(r)
    \/ \E r \in Reqs : ReplyMailOk(r)
    \/ \E r \in Reqs : ReplyMailError(r)

SpecLive == Init /\ [][NextLive]_vars /\ Fairness

---------------------------------------------------------------------------
(* Vocabulary of the properties *)

Range(s) == {s[i] : i \in DOMAIN s}

\* The handler of r did e.
Did(r, e) == e \in Range(log[r])

Done(r) == pc[r] = "done"

\* The records of the collection that request r wrote.
RecordsOf(r) == {i \in DOMAIN store : store[i].id = doc[r].id}

\* The terminal states of a request.
Rejected(r) == Done(r) /\ resp[r] = <<Response400>>
Failed(r) == Done(r) /\ resp[r] = <<Response500>>
Completed(r) == Done(r) /\ resp[r] = <<Response200>>

\* A field that is missing, empty or only white space.
Blank(x) == x.t = "undefined" \/ (x.t = "string" /\ Trim(x.v) = <<>>)

\* A field that is present and not text.
NotTextual(x) == x.t \notin {"undefined", "string"}

---------------------------------------------------------------------------
(* C1 *)

\* C1: a request whose name, email or message is missing, empty or only
\* white space ends Rejected (400, success false), and neither save() nor
\* sendMail() is ever called for it.
C1_BlankIsRejected ==
    \A r \in Reqs :
        ( /\ pc[r] # "idle"
          /\ Blank(body[r].name) \/ Blank(body[r].email)
                \/ Blank(body[r].message) )
        => /\ ~Did(r, "save")
           /\ mailCalls[r] = <<>>
           /\ Done(r) => Rejected(r)

---------------------------------------------------------------------------
(* C2 *)

---------------------------------------------------------------------------
(* C3 *)

\* C3: when save() fails, the request makes no sendMail call at all, has no
\* record in the collection and is answered 500 with success false.
C3_SaveErrorStopsRequest ==
    \A r \in Reqs :
        Did(r, "saveError")
        => /\ mailCalls[r] = <<>>
           /\ sent[r] = <<>>
           /\ RecordsOf(r) = {}
           /\ Failed(r)
           /\ resp[r][1].status = 500 /\ ~resp[r][1].success

C3_Witness ==
    \E r \in Reqs : Did(r, "saveError") /\ DocValid(doc[r]) /\ Done(r)

---------------------------------------------------------------------------
(* C4 *)

\* C4: when save() succeeded and either dispatch failed, the saved record
\* is in the collection as it was written and the response is 500 with
\* success false.
C4_RecordKeptOnMailError ==
    \A r \in Reqs :
        (Did(r, "saveOk") /\ (Did(r, "adminError") \/ Did(r, "replyError")))
        => /\ \E i \in DOMAIN store : store[i] = doc[r]
           /\ Cardinality(RecordsOf(r)) = 1
           /\ resp[r] = <<Response500>>
           /\ resp[r][1].status = 500 /\ ~resp[r][1].success

C4_Witness ==
    \E r \in Reqs : Did(r, "saveOk") /\ Did(r, "replyError") /\ Done(r)

---------------------------------------------------------------------------
(* C5 *)

---------------------------------------------------------------------------
(* C6 *)

\* What the subject of a record is said to be for the input subject x.
DefaultedSubject(x) ==
    IF x.t = "undefined" \/ Trim(x.v) = <<>> THEN NoSubject ELSE Trim(x.v)

\* C6: every record of the collection has a non-empty name, email and
\* message, and a subject that is never empty: the trimmed input subject, or
\* "No Subject" when the input subject is absent or empty, also when it is
\* empty after trimming.
C6_RecordsAreComplete ==
    \A r \in Reqs :
        \A i \in RecordsOf(r) :
            /\ store[i].name.t = "string" /\ store[i].name.v # <<>>
            /\ store[i].email.t = "string" /\ store[i].email.v # <<>>
            /\ store[i].message.t = "string" /\ store[i].message.v # <<>>
            /\ store[i].subject.t = "string" /\ store[i].subject.v # <<>>
            /\ body[r].subject.t \in {"undefined", "string"}
                 => store[i].subject.v = DefaultedSubject(body[r].subject)

---------------------------------------------------------------------------
(* C7 *)

\* C7: a request that passes the check of the required fields and whose
\* save() succeeds has exactly one record in the collection, whatever the
\* dispatches do afterwards; every other request has none, so no request
\* ever has more than one and the collection holds one record for each
\* successful save.
C7_OneRecordPerAcceptedRequest ==
    /\ \A r \in Reqs :
          Cardinality(RecordsOf(r)) =
              IF Did(r, "valid") /\ Did(r, "saveOk") THEN 1 ELSE 0
    /\ Len(store) = Cardinality({r \in Reqs : Did(r, "saveOk")})

C7_Witness ==
    \E r, q \in Reqs :
        /\ r # q
        /\ Completed(r)
        /\ Did(q, "saveOk") /\ Did(q, "adminError")
        /\ Len(store) = 2

---------------------------------------------------------------------------
(* C8 *)

\* C8: a request whose name, email or message is present but not text (a
\* number, an object) is rejected like one with a missing field: nothing is
\* stored and the response is the 400.
C8_NotTextualIsRejected ==
    \A r \in Reqs :
        ( /\ pc[r] # "idle"
          /\ NotTextual(body[r].name) \/ NotTextual(body[r].email)
                \/ NotTextual(body[r].message) )
        => /\ RecordsOf(r) = {}
           /\ Done(r) => Rejected(r)

---------------------------------------------------------------------------
(* C9 *)

---------------------------------------------------------------------------
(* C10 *)

\* Requests r and q carried the same payload and both were saved.
SameSaved(r, q) ==
    /\ r # q
    /\ body[r] = body[q]
    /\ Did(r, "saveOk")
    /\ Did(q, "saveOk")

\* C10 as stated: the same valid payload submitted twice, both saves
\* succeeding, gives two distinct records with two distinct createdAt
\* values.
C10_TwoRecordsTwoTimes ==
    \A r, q \in Reqs :
        SameSaved(r, q)
        => \E i \in RecordsOf(r), j \in RecordsOf(q) :
              /\ i # j
              /\ store[i].createdAt # store[j].createdAt

\* C10 as amended: the same valid payload submitted twice, both saves
\* succeeding, gives two distinct records (two positions of the collection,
\* two _id values) equal in name, email, subject and message; the second is
\* never deduplicated against the first.  Their createdAt values may be
\* equal: both documents can be constructed at the same clock value.
C10_TwoRecords ==
    \A r, q \in Reqs :
        SameSaved(r, q)
        => \E i \in RecordsOf(r), j \in RecordsOf(q) :
              /\ i # j
              /\ store[i].id # store[j].id
              /\ store[i].name = store[j].name
              /\ store[i].email = store[j].email
              /\ store[i].subject = store[j].subject
              /\ store[i].message = store[j].message

\* The same payload was saved twice at one clock value.
C10_Witness ==
    \E r, q \in Reqs :
        /\ SameSaved(r, q)
        /\ doc[r].createdAt = doc[q].createdAt
        /\ Len(store) = 2

---------------------------------------------------------------------------
(* C11 *)

EscapeChar(c) ==
    CASE c = "<" -> <<"&", "l", "t", ";">>
      [] c = ">" -> <<"&", "g", "t", ";">>
      [] c = "&" -> <<"&", "a", "m", "p", ";">>
      [] c = "\"" -> <<"&", "q", "u", "o", "t", ";">>
      [] OTHER -> <<c>>

RECURSIVE EscapeHtml(_)
\* The text s with its markup characters replaced by their entities.
EscapeHtml(s) ==
    IF s = <<>> THEN <<>> ELSE EscapeChar(Head(s)) \o EscapeHtml(Tail(s))

\* C11: in the bodies of the operator message and of the acknowledgment the
\* name, subject and message of the request appear HTML-escaped: a markup
\* character of the input (<, >, &, quote) is in the body only as its
\* entity, never raw.
C11_BodiesAreEscaped ==
    \A r \in Reqs :
        \A i \in DOMAIN mailCalls[r] :
            LET m == mailCalls[r][i]
                subject == OrElse(body[r].subject, Str(NoSubject)).v
            IN  /\ m.html.name = EscapeHtml(body[r].name.v)
                /\ m.kind = "admin"
                     => /\ m.html.subject = EscapeHtml(subject)
                        /\ m.html.message =
                              ReplaceNewlines(EscapeHtml(body[r].message.v))

---------------------------------------------------------------------------
(* C12 *)

\* A required field that is text and not blank.
GoodText(x) == x.t = "string" /\ Trim(x.v) # <<>>

\* A valid input: the three required fields are good text and the subject is
\* text or absent.
ValidInput(b) ==
    /\ GoodText(b.name)
    /\ GoodText(b.email)
    /\ GoodText(b.message)
    /\ b.subject.t \in {"undefined", "string"}

\* C12: for every valid input the persisted record holds the name and the
\* message trimmed, the email trimmed and in lower case ("A@x " is stored as
\* "a@x") and the subject "No Subject" when it was absent; and the response
\* is the success response when both dispatches succeeded.
C12_RecordIsNormalised ==
    \A r \in Reqs :
        (pc[r] # "idle" /\ ValidInput(body[r]))
        => /\ Did(r, "saveOk") => RecordsOf(r) # {}
           /\ \A i \in RecordsOf(r) :
                 /\ store[i].name = Str(Trim(body[r].name.v))
                 /\ store[i].message = Str(Trim(body[r].message.v))
                 /\ store[i].email = Str(ToLowerCase(Trim(body[r].email.v)))
                 /\ body[r].subject.t = "undefined"
                      => store[i].subject = Str(NoSubject)
                 /\ body[r].email = AdaEmail
                      => store[i].email.v = <<"a", "@", "x">>
                 /\ body[r].name = AdaName
                      => store[i].name.v = <<"<", "A">>
                 /\ body[r].message = Hello
                      => store[i].message.v = <<"M", "\n", "m">>
           /\ (Did(r, "adminOk") /\ Did(r, "replyOk")) => Completed(r)

C12_Witness ==
    \E r \in Reqs :
        /\ body[r] = ValidBody
        /\ Completed(r)
        /\ RecordsOf(r) # {}

---------------------------------------------------------------------------
(* C13 *)

\* The positions of the event e in the log of r.
At(r, e) == {i \in DOMAIN log[r] : log[r][i] = e}

\* Whenever r did b, it did a before every b.
Precedes(r, a, b) ==
    \A j \in At(r, b) : \E i \in At(r, a) : i < j

\* C13: within one request the stages are not reordered: the check of the
\* fields precedes the call of save(), a successful save precedes every
\* sendMail call and the record is written before any, the operator message
\* is dispatched before the acknowledgment, and the response comes after the
\* last stage the request attempted.
C13_StagesInOrder ==
    \A r \in Reqs :
        /\ Precedes(r, "valid", "save")
        /\ Precedes(r, "save", "saveOk")
        /\ Precedes(r, "saveOk", "sendAdmin")
        /\ Precedes(r, "saveOk", "sendReply")
        /\ Precedes(r, "sendAdmin", "adminOk")
        /\ Precedes(r, "adminOk", "sendReply")
        /\ Precedes(r, "sendReply", "replyOk")
        /\ mailCalls[r] # <<>> => RecordsOf(r) # {}
        /\ \A i \in DOMAIN mailCalls[r] :
              mailCalls[r][i].kind = IF i = 1 THEN "admin" ELSE "reply"
        /\ \A i \in At(r, "respond") : i = Len(log[r])
        /\ resp[r] # <<>> <=> Done(r)
        /\ Done(r) <=> Did(r, "respond")

C13_Witness ==
    \E r \in Reqs :
        log[r] = <<"valid", "save", "saveOk", "sendAdmin", "adminOk",
                   "sendReply", "replyOk", "respond">>

---------------------------------------------------------------------------
(* C14 *)

---------------------------------------------------------------------------
(* C15 *)

\* The number of terminal states request r is in.
TerminalStates(r) ==
    Cardinality({s \in {"Rejected", "Failed", "Completed"} :
                    \/ s = "Rejected" /\ Rejected(r)
                    \/ s = "Failed" /\ Failed(r)
                    \/ s = "Completed" /\ Completed(r)})

\* C15: when every call of the store and of the transport returns, every
\* request that arrived eventually is in exactly one of Rejected, Failed and
\* Completed with exactly one response sent, and no request ever has two
\* responses.
C15_EveryRequestAnswered ==
    \A r \in Reqs :
        /\ [](pc[r] # "idle"
                => <>[](/\ Done(r)
                        /\ Len(resp[r]) = 1
                        /\ TerminalStates(r) = 1))
        /\ [](Len(resp[r]) <= 1)

C15_Witness ==
    \E r, q \in Reqs :
        /\ Completed(r)
        /\ Failed(q)
        /\ Len(resp[r]) = 1
        /\ Len(resp[q]) = 1

---------------------------------------------------------------------------
(* C16 *)

\* The calls of sendMail by request r with a message of kind k.
CallsOfKind(r, k) == {i \in DOMAIN mailCalls[r] : mailCalls[r][i].kind = k}

\* C16: nothing is retried: within one request the operator message and
\* the acknowledgment are each handed to the transport at most once, so a
\* request makes at most two sendMail calls, whether or not one failed.
C16_NoRetry ==
    \A r \in Reqs :
        /\ Cardinality(CallsOfKind(r, "admin")) <= 1
        /\ Cardinality(CallsOfKind(r, "reply")) <= 1
        /\ Len(mailCalls[r]) <= 2
        /\ Cardinality(At(r, "sendAdmin")) = Cardinality(CallsOfKind(r, "admin"))
        /\ Cardinality(At(r, "sendReply")) = Cardinality(CallsOfKind(r, "reply"))
        /\ Cardinality(At(r, "save")) <= 1
        /\ (Did(r, "adminError") \/ Did(r, "replyError"))
             => Failed(r)

C16_Witness ==
    \E r, q \in Reqs :
        /\ Did(r, "adminError") /\ Len(mailCalls[r]) = 1 /\ Done(r)
        /\ Did(q, "replyError") /\ Len(mailCalls[q]) = 2 /\ Done(q)

---------------------------------------------------------------------------
(* C17 *)

\* Every record of the collection is still there, at its place and with all
\* its field values, after the step.
RecordsKept ==
    /\ Len(store') >= Len(store)
    /\ \A i \in DOMAIN store : store'[i] = store[i]

\* C17: the collection is append-only: no step of any request, in any
\* interleaving, changes or removes a record that is persisted.
C17_AppendOnly == [][RecordsKept]_vars

\* A record outlived the whole of a later request: its own request was
\* answered, and another request was saved and answered after it.
C17_Witness ==
    \E r, q \in Reqs :
        /\ r # q
        /\ Done(r) /\ Done(q)
        /\ RecordsOf(r) = {1}
        /\ RecordsOf(q) = {2}
        /\ store[1] = doc[r]

---------------------------------------------------------------------------
(* C18 *)

\* What request r left in the collection, without the _id and the time.
ContentOf(r) ==
    {[name |-> store[i].name, email |-> store[i].email,
      subject |-> store[i].subject, message |-> store[i].message] :
        i \in RecordsOf(r)}

\* C18: requests are independent: whatever the interleaving, two requests
\* with the same input and the same outcomes of their own save() and
\* sendMail calls end in the same terminal state with the same response and
\* the same persisted fields, and the collection holds as many records as
\* there are requests whose save succeeded.
C18_RequestsIndependent ==
    /\ \A r, q \in Reqs :
          (body[r] = body[q] /\ log[r] = log[q] /\ pc[r] # "idle")
          => /\ pc[r] = pc[q]
             /\ resp[r] = resp[q]
             /\ ContentOf(r) = ContentOf(q)
             /\ Cardinality(RecordsOf(r)) = Cardinality(RecordsOf(q))
             /\ mailCalls[r] = mailCalls[q]
             /\ sent[r] = sent[q]
    /\ \A r \in Reqs :
          /\ Cardinality(RecordsOf(r)) = IF Did(r, "saveOk") THEN 1 ELSE 0
          /\ \A i \in RecordsOf(r) : store[i] = doc[r]
    /\ Len(store) = Cardinality({r \in Reqs : Did(r, "saveOk")})

\* Two requests with the same input and the same outcomes overlapped, and a
\* third outcome was seen.
C18_Witness ==
    \E r, q \in Reqs :
        /\ r # q
        /\ body[r] = body[q]
        /\ log[r] = log[q]
        /\ Completed(r) /\ Completed(q)
        /\ store[1].id > store[2].id

====
